---- MODULE Spec2Model ----
(***************************************************************************)
(* Credential / session / token lifecycle of the Outlook Graph API gateway *)
(* (models/database.py, providers/outlook.py, services/auth_service.py,    *)
(* auth/dependencies.py).                                                  *)
(*                                                                         *)
(* Time is counted in seconds (datetime.utcnow() as an integer).  Python   *)
(* dicts are records, a missing key or a null/empty value is an absent     *)
(* field, None is the empty tuple.  Mail addresses are pairs               *)
(* <<local part, domain>> so that split('@')[0] is the first component.    *)
(***************************************************************************)
EXTENDS Integers, Sequences, FiniteSets, TLC

VARIABLES
    user_credentials,   \* table user_credentials: user_id -> row
    user_sessions,      \* table user_sessions: session_token -> row
    api_keys,           \* table api_keys: api_key -> row
    now,                \* the clock read by datetime.utcnow() / CURRENT_TIMESTAMP
    ticks,              \* how often the clock has advanced (bounds the model)
    issued,             \* number of token pairs the identity provider has issued
    last                \* the call made by the last step: its arguments and outcome

vars == <<user_credentials, user_sessions, api_keys, now, ticks, issued, last>>

(* ------------------------------ bounds -------------------------------- *)
MaxTicks == 3       \* clock advances per behaviour
MaxTokens == 3      \* distinct token pairs the identity provider issues
MaxSessions == 1    \* rows of user_sessions
MaxKeys == 1        \* rows of api_keys
\* sessions and keys in the specification of several logins of one account
MaxLogins == 2
MaxUserKeys == 2

(* --------------------------- program constants ------------------------ *)
DefaultExpiresIn == 3600        \* tokens.get('expires_in', 3600)
ProviderDefaultExpiresIn == 3599 \* credentials.get("expires_in", 3599)
RefreshExpiresIn == 3600        \* expires_in=3600 passed to update_tokens
RefreshMarginSeconds == 300     \* timedelta(minutes=5)
SessionDurationSeconds == 86400 \* duration_hours: int = 24

(* ------------------------------ values -------------------------------- *)
None == <<>>

AccessToken(n) == <<"access", n>>
RefreshToken(n) == <<"refresh", n>>
SessionToken(n) == <<"session", n>>
ApiKey(n) == <<"ok_", n>>

\* The clock advances through a repeating schedule.  From the start of a
\* cycle, 3400 s leaves a 3600 s token less than five minutes, 260 s more
\* (3660 s = 61 min) is past its expiry, and 82741 s more (86401 s) is past
\* a session's 24 h lifetime.
ClockSchedule == <<3400, 260, 82741>>
\* expires_in values the token endpoint answers with.
ExpiresIns == {3600, 7200}

\* Answer of GET https://graph.microsoft.com/v1.0/me for the signed-in user.
ProfileAlice ==
    [id |-> "id-alice", mail |-> <<"alice", "contoso.com">>,
     userPrincipalName |-> <<"alice", "contoso.com">>, displayName |-> "Alice"]
Profiles == {ProfileAlice}

\* The same account after its mailbox was renamed, and a second account.
ProfileAliceRenamed ==
    [id |-> "id-alice", mail |-> <<"alice.b", "contoso.com">>,
     userPrincipalName |-> <<"alice.b", "contoso.com">>, displayName |-> "Alice B"]
ProfileBob ==
    [id |-> "id-bob", mail |-> <<"bob", "contoso.com">>,
     userPrincipalName |-> <<"bob", "contoso.com">>, displayName |-> "Bob"]
AllProfiles == {ProfileAlice, ProfileAliceRenamed, ProfileBob}

\* The accounts of the identity provider and the profile of each.
IdentityUsers == {"alice", "bob"}
ProfileOf(who) == IF who = "alice" THEN ProfileAlice ELSE ProfileBob

\* dict.get(key, default)
Get(d, k, default) == IF k \in DOMAIN d THEN d[k] ELSE default

\* str.split('@')[0] of an address; ''.split('@')[0] is ''
SplitAt0(addr) == IF addr = <<>> THEN "" ELSE addr[1]

\* datetime.isoformat() / datetime.fromisoformat(): the timestamp as text and back
isoformat(t) == <<"iso", t>>
fromisoformat(s) == s[2]

DB == [user_credentials |-> user_credentials,
       user_sessions |-> user_sessions,
       api_keys |-> api_keys]

\* outcome of a call: the tables after it, and what it returned or raised
Return(db, v) == [db |-> db, exc |-> None, ret |-> v]
Raise(db, e) == [db |-> db, exc |-> e, ret |-> None]

(* ------------------- models/database.py: UserCredentialsDB ------------ *)

UserIdOf(user_info) ==
    IF "id" \in DOMAIN user_info
    THEN user_info.id
    ELSE SplitAt0(Get(user_info, "userPrincipalName", <<>>))

EmailOf(user_info) ==
    IF "mail" \in DOMAIN user_info
    THEN user_info.mail
    ELSE Get(user_info, "userPrincipalName", <<>>)

\* save_user_credentials whose ON CONFLICT clause updates the tokens only
save_user_credentials_keeps_profile(db, t, user_info, tokens) ==
    LET user_id == UserIdOf(user_info)
        expires_at == t + Get(tokens, "expires_in", DefaultExpiresIn)
        old == db.user_credentials
        row == [email |-> IF user_id \in DOMAIN old
                          THEN old[user_id].email ELSE EmailOf(user_info),
                display_name |-> IF user_id \in DOMAIN old
                                 THEN old[user_id].display_name
                                 ELSE Get(user_info, "displayName", ""),
                access_token |-> tokens.access_token,
                refresh_token |-> Get(tokens, "refresh_token", None),
                token_expires_at |-> expires_at,
                is_active |-> IF user_id \in DOMAIN old
                              THEN old[user_id].is_active ELSE TRUE]
    IN  Return([db EXCEPT !.user_credentials =
                    [u \in DOMAIN old \cup {user_id} |->
                        IF u = user_id THEN row ELSE old[u]]],
               user_id)

\* INSERT ... ON CONFLICT (user_id) DO UPDATE: is_active keeps its value on
\* conflict and takes the column default TRUE on insert.
save_user_credentials(db, t, user_info, tokens) ==
    LET user_id == UserIdOf(user_info)
        expires_at == t + Get(tokens, "expires_in", DefaultExpiresIn)
        old == db.user_credentials
        row == [email |-> EmailOf(user_info),
                display_name |-> Get(user_info, "displayName", ""),
                access_token |-> tokens.access_token,
                refresh_token |-> Get(tokens, "refresh_token", None),
                token_expires_at |-> expires_at,
                is_active |-> IF user_id \in DOMAIN old
                              THEN old[user_id].is_active ELSE TRUE]
    IN  Return([db EXCEPT !.user_credentials =
                    [u \in DOMAIN old \cup {user_id} |->
                        IF u = user_id THEN row ELSE old[u]]],
               user_id)

\* secrets.token_urlsafe(32): a token no row carries yet
NewSessionToken(db) == SessionToken(Cardinality(DOMAIN db.user_sessions) + 1)

\* create_session with sessions as short-lived as a 3600 s access token
create_session_one_hour(db, t, user_id) ==
    LET session_token == NewSessionToken(db)
        row == [user_id |-> user_id,
                created_at |-> t,
                expires_at |-> t + DefaultExpiresIn,
                is_active |-> TRUE]
    IN  IF user_id \notin DOMAIN db.user_credentials
        THEN Raise(db, <<"ForeignKeyViolation">>)
        ELSE Return([db EXCEPT !.user_sessions = @ @@ (session_token :> row)],
                    session_token)

\* create_session on a table without the FOREIGN KEY constraint
create_session_unchecked(db, t, user_id) ==
    LET session_token == NewSessionToken(db)
        row == [user_id |-> user_id,
                created_at |-> t,
                expires_at |-> t + SessionDurationSeconds,
                is_active |-> TRUE]
    IN  Return([db EXCEPT !.user_sessions = @ @@ (session_token :> row)],
               session_token)

create_session(db, t, user_id) ==
    LET session_token == NewSessionToken(db)
        row == [user_id |-> user_id,
                created_at |-> t,
                expires_at |-> t + SessionDurationSeconds,
                is_active |-> TRUE]
    IN  IF user_id \notin DOMAIN db.user_credentials
        THEN Raise(db, <<"ForeignKeyViolation">>)
        ELSE Return([db EXCEPT !.user_sessions = @ @@ (session_token :> row)],
                    session_token)

\* invalidate_session whose UPDATE selects by the user of the session
invalidate_session_of_user(db, session_token) ==
    Return([db EXCEPT !.user_sessions =
                [s \in DOMAIN @ |->
                    IF /\ session_token \in DOMAIN @
                       /\ @[s].user_id = @[session_token].user_id
                    THEN [@[s] EXCEPT !.is_active = FALSE]
                    ELSE @[s]]],
           None)

\* invalidate_session whose UPDATE flips is_active instead of clearing it
invalidate_session_toggles(db, session_token) ==
    Return([db EXCEPT !.user_sessions =
                [s \in DOMAIN @ |->
                    IF s = session_token THEN [@[s] EXCEPT !.is_active = ~@]
                    ELSE @[s]]],
           None)

\* invalidate_session whose UPDATE matches no row
invalidate_session_without_effect(db, session_token) ==
    Return(db, None)

invalidate_session(db, session_token) ==
    Return([db EXCEPT !.user_sessions =
                [s \in DOMAIN @ |->
                    IF s = session_token THEN [@[s] EXCEPT !.is_active = FALSE]
                    ELSE @[s]]],
           None)

\* validate_session whose query leaves out s.is_active = TRUE
validate_session_ignores_is_active(db, t, session_token) ==
    LET found == /\ session_token \in DOMAIN db.user_sessions
                 /\ db.user_sessions[session_token].user_id \in DOMAIN db.user_credentials
                 /\ db.user_credentials[db.user_sessions[session_token].user_id].is_active
        s == db.user_sessions[session_token]
        u == db.user_credentials[s.user_id]
    IN  IF ~found
        THEN Return(db, None)
        ELSE IF s.expires_at < t
             THEN Return(invalidate_session(db, session_token).db, None)
             ELSE Return(db, [user_id |-> s.user_id,
                              email |-> u.email,
                              display_name |-> u.display_name,
                              access_token |-> u.access_token,
                              token_expires_at |-> isoformat(u.token_expires_at)])

\* validate_session without the lazy cleanup of an expired session
validate_session_keeps_expired(db, t, session_token) ==
    LET found == /\ session_token \in DOMAIN db.user_sessions
                 /\ db.user_sessions[session_token].is_active
                 /\ db.user_sessions[session_token].user_id \in DOMAIN db.user_credentials
                 /\ db.user_credentials[db.user_sessions[session_token].user_id].is_active
        s == db.user_sessions[session_token]
        u == db.user_credentials[s.user_id]
    IN  IF ~found
        THEN Return(db, None)
        ELSE IF s.expires_at < t
             THEN Return(db, None)
             ELSE Return(db, [user_id |-> s.user_id,
                              email |-> u.email,
                              display_name |-> u.display_name,
                              access_token |-> u.access_token,
                              token_expires_at |-> isoformat(u.token_expires_at)])

\* validate_session whose SELECT and result also carry u.refresh_token
validate_session_with_refresh_token(db, t, session_token) ==
    LET found == /\ session_token \in DOMAIN db.user_sessions
                 /\ db.user_sessions[session_token].is_active
                 /\ db.user_sessions[session_token].user_id \in DOMAIN db.user_credentials
                 /\ db.user_credentials[db.user_sessions[session_token].user_id].is_active
        s == db.user_sessions[session_token]
        u == db.user_credentials[s.user_id]
    IN  IF ~found
        THEN Return(db, None)
        ELSE IF s.expires_at < t
             THEN Return(invalidate_session(db, session_token).db, None)
             ELSE Return(db, [user_id |-> s.user_id,
                              email |-> u.email,
                              display_name |-> u.display_name,
                              access_token |-> u.access_token,
                              refresh_token |-> u.refresh_token,
                              token_expires_at |-> isoformat(u.token_expires_at)])

validate_session(db, t, session_token) ==
    LET found == /\ session_token \in DOMAIN db.user_sessions
                 /\ db.user_sessions[session_token].is_active
                 /\ db.user_sessions[session_token].user_id \in DOMAIN db.user_credentials
                 /\ db.user_credentials[db.user_sessions[session_token].user_id].is_active
        s == db.user_sessions[session_token]
        u == db.user_credentials[s.user_id]
    IN  IF ~found
        THEN Return(db, None)
        ELSE IF s.expires_at < t
             THEN Return(invalidate_session(db, session_token).db, None)
             ELSE Return(db, [user_id |-> s.user_id,
                              email |-> u.email,
                              display_name |-> u.display_name,
                              access_token |-> u.access_token,
                              token_expires_at |-> isoformat(u.token_expires_at)])

\* f"ok_{secrets.token_urlsafe(40)}": a key no row carries yet
NewApiKey(db) == ApiKey(Cardinality(DOMAIN db.api_keys) + 1)

generate_api_key(db, user_id, name) ==
    LET api_key == NewApiKey(db)
        row == [user_id |-> user_id,
                name |-> name,
                last_used_at |-> None,
                is_active |-> TRUE]
    IN  IF user_id \notin DOMAIN db.user_credentials
        THEN Raise(db, <<"ForeignKeyViolation">>)
        ELSE Return([db EXCEPT !.api_keys = @ @@ (api_key :> row)], api_key)

\* validate_api_key without the UPDATE of last_used_at
validate_api_key_without_touch(db, t, api_key) ==
    LET found == /\ api_key \in DOMAIN db.api_keys
                 /\ db.api_keys[api_key].is_active
                 /\ db.api_keys[api_key].user_id \in DOMAIN db.user_credentials
                 /\ db.user_credentials[db.api_keys[api_key].user_id].is_active
        a == db.api_keys[api_key]
        u == db.user_credentials[a.user_id]
    IN  IF ~found
        THEN Return(db, None)
        ELSE Return(db,
                    [user_id |-> a.user_id,
                     email |-> u.email,
                     display_name |-> u.display_name,
                     access_token |-> u.access_token,
                     refresh_token |-> u.refresh_token,
                     token_expires_at |-> isoformat(u.token_expires_at)])

\* validate_api_key whose query leaves out a.is_active = TRUE
validate_api_key_ignores_revocation(db, t, api_key) ==
    LET found == /\ api_key \in DOMAIN db.api_keys
                 /\ db.api_keys[api_key].user_id \in DOMAIN db.user_credentials
                 /\ db.user_credentials[db.api_keys[api_key].user_id].is_active
        a == db.api_keys[api_key]
        u == db.user_credentials[a.user_id]
    IN  IF ~found
        THEN Return(db, None)
        ELSE Return([db EXCEPT !.api_keys[api_key].last_used_at = <<"at", t>>],
                    [user_id |-> a.user_id,
                     email |-> u.email,
                     display_name |-> u.display_name,
                     access_token |-> u.access_token,
                     refresh_token |-> u.refresh_token,
                     token_expires_at |-> isoformat(u.token_expires_at)])

validate_api_key(db, t, api_key) ==
    LET found == /\ api_key \in DOMAIN db.api_keys
                 /\ db.api_keys[api_key].is_active
                 /\ db.api_keys[api_key].user_id \in DOMAIN db.user_credentials
                 /\ db.user_credentials[db.api_keys[api_key].user_id].is_active
        a == db.api_keys[api_key]
        u == db.user_credentials[a.user_id]
    IN  IF ~found
        THEN Return(db, None)
        ELSE Return([db EXCEPT !.api_keys[api_key].last_used_at = <<"at", t>>],
                    [user_id |-> a.user_id,
                     email |-> u.email,
                     display_name |-> u.display_name,
                     access_token |-> u.access_token,
                     refresh_token |-> u.refresh_token,
                     token_expires_at |-> isoformat(u.token_expires_at)])

\* update_tokens with a single UPDATE that always writes refresh_token
update_tokens_overwrites_refresh(db, t, user_id, access_token, refresh_token, expires_in) ==
    LET expires_at == t + expires_in
        old == db.user_credentials
    IN  IF user_id \notin DOMAIN old
        THEN Return(db, None)
        ELSE Return([db EXCEPT !.user_credentials[user_id] =
                         [@ EXCEPT !.access_token = access_token,
                                   !.refresh_token = refresh_token,
                                   !.token_expires_at = expires_at]],
                    None)

\* UPDATE ... WHERE user_id = %s: no row matched is no error
update_tokens(db, t, user_id, access_token, refresh_token, expires_in) ==
    LET expires_at == t + expires_in
        old == db.user_credentials
    IN  IF user_id \notin DOMAIN old
        THEN Return(db, None)
        ELSE IF refresh_token # None
             THEN Return([db EXCEPT !.user_credentials[user_id] =
                              [@ EXCEPT !.access_token = access_token,
                                        !.refresh_token = refresh_token,
                                        !.token_expires_at = expires_at]],
                         None)
             ELSE Return([db EXCEPT !.user_credentials[user_id] =
                              [@ EXCEPT !.access_token = access_token,
                                        !.token_expires_at = expires_at]],
                         None)

\* revoke_api_key as a hard delete
revoke_api_key_deletes(db, api_key) ==
    Return([db EXCEPT !.api_keys =
                [k \in DOMAIN @ \ {api_key} |-> @[k]]],
           None)

revoke_api_key(db, api_key) ==
    Return([db EXCEPT !.api_keys =
                [k \in DOMAIN @ |->
                    IF k = api_key THEN [@[k] EXCEPT !.is_active = FALSE]
                    ELSE @[k]]],
           None)

(* ------------------- providers/outlook.py: OutlookProvider ------------- *)

\* Parameters (after self) that the provider's methods declare without a
\* default, and the keyword arguments the callers pass.  A call that leaves a
\* required parameter unbound raises TypeError before the body runs.
oauth_get_credentials_params == {"redirect_uri", "system_credentials", "code"}
oauth_refresh_credentials_params == {"redirect_uri", "system_credentials", "credentials"}
exchange_call_arguments == {"redirect_uri", "code"}
refresh_call_arguments == {"redirect_uri", "credentials"}

\* outcome of a call that touches no table; calls counts the requests it
\* sent to the token endpoint
Answer(v, n) == [exc |-> None, ret |-> v, calls |-> n]
Fail(e, n) == [exc |-> e, ret |-> None, calls |-> n]

\* Body of _oauth_get_credentials; credentials is what
\* acquire_token_by_authorization_code answered.
oauth_get_credentials(t, code, credentials) ==
    IF code = ""
    THEN Fail(<<"ToolProviderCredentialValidationError">>, 0)
    ELSE IF "access_token" \notin DOMAIN credentials
         THEN Fail(<<"ToolProviderCredentialValidationError">>, 1)
         ELSE IF "refresh_token" \notin DOMAIN credentials
              THEN Fail(<<"ToolProviderCredentialValidationError">>, 1)
              ELSE Answer([credentials |->
                               [access_token |-> credentials.access_token,
                                refresh_token |-> credentials.refresh_token],
                           expires_at |->
                               Get(credentials, "expires_in", ProviderDefaultExpiresIn) + t],
                          1)

\* Body of oauth_refresh_credentials; response is the token endpoint's answer
\* to the POST.
oauth_refresh_credentials(t, credentials, response) ==
    IF response.status # 200
    THEN Fail(<<"ToolProviderCredentialValidationError">>, 1)
    ELSE LET token_data == response.body
         IN  IF \/ "access_token" \notin DOMAIN token_data
                \/ "refresh_token" \notin DOMAIN token_data
             THEN Fail(<<"ToolProviderCredentialValidationError">>, 1)
             ELSE Answer([credentials |->
                              [access_token |-> token_data.access_token,
                               refresh_token |-> token_data.refresh_token],
                          expires_at |->
                              Get(token_data, "expires_in", ProviderDefaultExpiresIn) + t],
                         1)

(* ------------------- services/auth_service.py: AuthService ------------ *)

FallbackProfile ==
    [mail |-> <<"unknown", "example.com">>, displayName |-> "Unknown User"]

\* get_user_info: the profile on a 200 answer, the fallback otherwise
get_user_info(response) ==
    IF response.status = 200 THEN response.json ELSE FallbackProfile

\* exchange_code_for_tokens that stores what the token endpoint answered
\* without the provider's checks
exchange_code_for_tokens_unchecked(db, t, code, credentials, profile_response) ==
    LET tokens == [access_token |-> Get(credentials, "access_token", None),
                   refresh_token |-> Get(credentials, "refresh_token", None),
                   expires_in |-> Get(credentials, "expires_in", DefaultExpiresIn),
                   token_type |-> "Bearer"]
        user_info == get_user_info(profile_response)
        saved == save_user_credentials(db, t, user_info, tokens)
        session == create_session(saved.db, t, saved.ret)
    IN  [db |-> session.db, exc |-> None, calls |-> 1,
         ret |-> [user_id |-> saved.ret, session_token |-> session.ret]]

\* exchange_code_for_tokens once the provider has returned the tokens: the
\* profile fetch, the upsert and the new session.
save_exchanged_tokens(db, t, tokens, profile_response) ==
    LET user_info == get_user_info(profile_response)
        saved == save_user_credentials(db, t, user_info, tokens)
        session == create_session(saved.db, t, saved.ret)
    IN  IF session.exc # None
        THEN Raise(session.db, session.exc)
        ELSE Return(session.db,
                    [user_id |-> saved.ret,
                     session_token |-> session.ret,
                     user_info |-> user_info,
                     access_token |-> tokens.access_token,
                     refresh_token |-> tokens.refresh_token,
                     expires_in |-> tokens.expires_in,
                     token_type |-> tokens.token_type])

exchange_code_for_tokens(db, t, code, credentials, profile_response) ==
    IF oauth_get_credentials_params \ exchange_call_arguments # {}
    THEN [db |-> db, exc |-> <<"TypeError">>, ret |-> None, calls |-> 0]
    ELSE LET oauth_credentials == oauth_get_credentials(t, code, credentials)
         IN  IF oauth_credentials.exc # None
             THEN [db |-> db, exc |-> oauth_credentials.exc, ret |-> None,
                   calls |-> oauth_credentials.calls]
             ELSE LET tokens ==
                          [access_token |-> oauth_credentials.ret.credentials.access_token,
                           refresh_token |-> oauth_credentials.ret.credentials.refresh_token,
                           expires_in |-> Get(oauth_credentials.ret.credentials,
                                              "expires_in", DefaultExpiresIn),
                           token_type |-> "Bearer"]
                      stored == save_exchanged_tokens(db, t, tokens, profile_response)
                  IN  [db |-> stored.db, exc |-> stored.exc, ret |-> stored.ret,
                       calls |-> 1]

refresh_access_token(t, refresh_token, response) ==
    IF oauth_refresh_credentials_params \ refresh_call_arguments # {}
    THEN Fail(<<"TypeError">>, 0)
    ELSE LET new_credentials ==
                 oauth_refresh_credentials(t, [refresh_token |-> refresh_token], response)
         IN  IF new_credentials.exc # None
             THEN new_credentials
             ELSE Answer([access_token |-> new_credentials.ret.credentials.access_token,
                          refresh_token |-> new_credentials.ret.credentials.refresh_token,
                          expires_at |-> new_credentials.ret.expires_at,
                          token_type |-> "Bearer"],
                         new_credentials.calls)

(* ------------------------- auth/dependencies.py ----------------------- *)

\* HTTPException(status_code=401, detail=...): the status and the detail
AuthRequired401 ==
    <<"HTTP401", "OAuth authentication required. Please authenticate first.">>
RefreshFailed401 ==
    <<"HTTP401", "OAuth token expired and refresh failed. Please re-authenticate.">>

\* Python truth value of a token or None
Falsy(x) == x = None \/ x = ""

\* cookies: the request's cookie jar
get_current_user(db, t, cookies) ==
    IF Falsy(Get(cookies, "session_token", None))
    THEN Return(db, None)
    ELSE validate_session(db, t, cookies.session_token)

get_access_token_with_refresh(db, t, cookies, response) ==
    LET current == get_current_user(db, t, cookies)
        user_data == current.ret
        access_token == Get(user_data, "access_token", None)
        refresh_token == Get(user_data, "refresh_token", None)
        token_expires_at == Get(user_data, "token_expires_at", None)
        user_id == Get(user_data, "user_id", "")
        expires_at == fromisoformat(token_expires_at)
        refreshed == refresh_access_token(t, refresh_token, response)
        new_tokens == refreshed.ret
        updated == update_tokens(current.db, t, user_id, new_tokens.access_token,
                                 Get(new_tokens, "refresh_token", refresh_token),
                                 RefreshExpiresIn)
    IN  IF user_data = None
        THEN [db |-> current.db, exc |-> None, ret |-> None, calls |-> 0]
        ELSE IF \/ Falsy(access_token) \/ Falsy(refresh_token)
                \/ Falsy(token_expires_at) \/ user_id = ""
             THEN [db |-> current.db, exc |-> None, ret |-> None, calls |-> 0]
             ELSE IF expires_at - t < RefreshMarginSeconds
                  THEN IF refreshed.exc # None
                       THEN [db |-> current.db, exc |-> RefreshFailed401, ret |-> None,
                             calls |-> refreshed.calls]
                       ELSE [db |-> updated.db, exc |-> None,
                             ret |-> new_tokens.access_token, calls |-> refreshed.calls]
                  ELSE [db |-> current.db, exc |-> None, ret |-> access_token,
                        calls |-> 0]

\* require_oauth_token that hands an absent token on to the route
require_oauth_token_returns_absent(db, t, cookies, response) ==
    get_access_token_with_refresh(db, t, cookies, response)

require_oauth_token(db, t, cookies, response) ==
    LET access_token == get_access_token_with_refresh(db, t, cookies, response)
    IN  IF access_token.exc # None
        THEN access_token
        ELSE IF Falsy(access_token.ret)
             THEN [db |-> access_token.db, exc |-> AuthRequired401, ret |-> None,
                   calls |-> access_token.calls]
             ELSE access_token

(* --------------------------- routers/client.py ------------------------ *)

\* RedirectResponse(url="/client", status_code=302) with the cookie deleted
LogoutResponse ==
    [status_code |-> 302, url |-> "/client", delete_cookie |-> "session_token"]

logout(db, cookies) ==
    IF Falsy(Get(cookies, "session_token", None))
    THEN Return(db, LogoutResponse)
    ELSE Return(invalidate_session(db, cookies.session_token).db, LogoutResponse)

(* ------------------------------ actions ------------------------------- *)

Init ==
    /\ user_credentials = <<>>
    /\ user_sessions = <<>>
    /\ api_keys = <<>>
    /\ now = 0
    /\ ticks = 0
    /\ issued = 0
    /\ last = [op |-> "init"]

\* commit the tables an outcome carries
Commit(out) ==
    /\ user_credentials' = out.db.user_credentials
    /\ user_sessions' = out.db.user_sessions
    /\ api_keys' = out.db.api_keys

Tick ==
    /\ ticks < MaxTicks
    /\ now' = now + ClockSchedule[(ticks % Len(ClockSchedule)) + 1]
    /\ ticks' = ticks + 1
    /\ last' = [op |-> "tick"]
    /\ UNCHANGED <<user_credentials, user_sessions, api_keys, issued>>

\* The token pair the identity provider issues next, with one of the
\* lifetimes it answers with; every pair is issued once.
TokenDicts ==
    { [access_token |-> AccessToken(issued + 1),
       refresh_token |-> RefreshToken(issued + 1),
       expires_in |-> e] : e \in ExpiresIns }

SaveUserCredentials ==
    /\ issued < MaxTokens
    /\ \E user_info \in Profiles, tokens \in TokenDicts :
        LET out == save_user_credentials(DB, now, user_info, tokens)
        IN  /\ Commit(out)
            /\ issued' = issued + 1
            /\ last' = [op |-> "save_user_credentials", user_info |-> user_info,
                        tokens |-> tokens, exc |-> out.exc, ret |-> out.ret]
            /\ UNCHANGED <<now, ticks>>

UserIds == {UserIdOf(p) : p \in Profiles}

CreateSession ==
    /\ Cardinality(DOMAIN user_sessions) < MaxSessions
    /\ \E user_id \in UserIds :
        LET out == create_session(DB, now, user_id)
        IN  /\ Commit(out)
            /\ last' = [op |-> "create_session", user_id |-> user_id,
                        exc |-> out.exc, ret |-> out.ret]
            /\ UNCHANGED <<now, ticks, issued>>

SessionTokens == {SessionToken(n) : n \in 1..MaxSessions}

ValidateSession ==
    \E session_token \in SessionTokens :
        LET out == validate_session(DB, now, session_token)
        IN  /\ Commit(out)
            /\ last' = [op |-> "validate_session", session_token |-> session_token,
                        exc |-> out.exc, ret |-> out.ret]
            /\ UNCHANGED <<now, ticks, issued>>

InvalidateSession ==
    \E session_token \in SessionTokens :
        LET out == invalidate_session(DB, session_token)
        IN  /\ Commit(out)
            /\ last' = [op |-> "invalidate_session", session_token |-> session_token,
                        exc |-> out.exc, ret |-> out.ret]
            /\ UNCHANGED <<now, ticks, issued>>

GenerateApiKey ==
    /\ Cardinality(DOMAIN api_keys) < MaxKeys
    /\ \E user_id \in UserIds :
        LET out == generate_api_key(DB, user_id, "Default")
        IN  /\ Commit(out)
            /\ last' = [op |-> "generate_api_key", user_id |-> user_id,
                        exc |-> out.exc, ret |-> out.ret]
            /\ UNCHANGED <<now, ticks, issued>>

ApiKeys == {ApiKey(n) : n \in 1..MaxKeys}

ValidateApiKey ==
    \E api_key \in ApiKeys :
        LET out == validate_api_key(DB, now, api_key)
        IN  /\ Commit(out)
            /\ last' = [op |-> "validate_api_key", api_key |-> api_key,
                        exc |-> out.exc, ret |-> out.ret]
            /\ UNCHANGED <<now, ticks, issued>>

RevokeApiKey ==
    \E api_key \in ApiKeys :
        LET out == revoke_api_key(DB, api_key)
        IN  /\ Commit(out)
            /\ last' = [op |-> "revoke_api_key", api_key |-> api_key,
                        exc |-> out.exc, ret |-> out.ret]
            /\ UNCHANGED <<now, ticks, issued>>

UpdateTokens ==
    /\ issued < MaxTokens
    /\ \E user_id \in UserIds, with_refresh \in BOOLEAN, expires_in \in ExpiresIns :
        LET access_token == AccessToken(issued + 1)
            refresh_token == IF with_refresh THEN RefreshToken(issued + 1) ELSE None
            out == update_tokens(DB, now, user_id, access_token, refresh_token,
                                 expires_in)
        IN  /\ Commit(out)
            /\ issued' = issued + 1
            /\ last' = [op |-> "update_tokens", user_id |-> user_id,
                        access_token |-> access_token,
                        refresh_token |-> refresh_token,
                        expires_in |-> expires_in,
                        exc |-> out.exc, ret |-> out.ret]
            /\ UNCHANGED <<now, ticks>>

\* Answers of acquire_token_by_authorization_code: a rejection, an answer
\* without an access token or without a refresh token, or the next token
\* pair with one of the lifetimes.
CodeAnswers ==
    {[error |-> "invalid_grant"],
     [refresh_token |-> RefreshToken(issued + 1)],
     [access_token |-> AccessToken(issued + 1), expires_in |-> DefaultExpiresIn]}
    \cup TokenDicts

\* An empty code, and a code sent to the token endpoint with each answer.
ExchangeInputs ==
    {[code |-> "", credentials |-> [error |-> "invalid_request"]]}
    \cup {[code |-> "abc123", credentials |-> a] : a \in CodeAnswers}

ProfileAnswers ==
    {[status |-> 200, json |-> ProfileAlice], [status |-> 401]}

ExchangeCodeForTokens ==
    \E input \in ExchangeInputs, profile_response \in ProfileAnswers :
        LET out == exchange_code_for_tokens(DB, now, input.code, input.credentials,
                                            profile_response)
        IN  /\ Commit(out)
            /\ issued' = IF out.calls > 0 /\ "access_token" \in DOMAIN input.credentials
                         THEN issued + 1 ELSE issued
            /\ last' = [op |-> "exchange_code_for_tokens", input |-> input,
                        exc |-> out.exc, ret |-> out.ret]
            /\ UNCHANGED <<now, ticks>>

\* Answers of the token endpoint to a refresh grant: an error status, or the
\* next access token, with or without a new refresh token.
RefreshAnswers ==
    {[status |-> 400, body |-> <<>>]}
    \cup {[status |-> 200, body |-> d] : d \in TokenDicts}
    \cup {[status |-> 200,
           body |-> [access_token |-> d.access_token, expires_in |-> d.expires_in]] :
          d \in TokenDicts}

CookieJars ==
    {<<>>} \cup {[session_token |-> c] : c \in SessionTokens}

\* last records the request and the outcome; the outcome is the same for
\* every answer the token endpoint could give exactly when no request
\* reaches it (calls = 0).
GetAccessTokenWithRefresh ==
    \E cookies \in CookieJars, response \in RefreshAnswers :
        LET out == get_access_token_with_refresh(DB, now, cookies, response)
        IN  /\ Commit(out)
            /\ issued' = IF out.calls > 0 /\ response.status = 200
                         THEN issued + 1 ELSE issued
            /\ last' = [op |-> "get_access_token_with_refresh", cookies |-> cookies,
                        response |-> IF out.calls > 0 THEN response ELSE None,
                        calls |-> out.calls, exc |-> out.exc, ret |-> out.ret]
            /\ UNCHANGED <<now, ticks>>

RequireOAuthToken ==
    \E cookies \in CookieJars, response \in RefreshAnswers :
        LET out == require_oauth_token(DB, now, cookies, response)
        IN  /\ Commit(out)
            /\ issued' = IF out.calls > 0 /\ response.status = 200
                         THEN issued + 1 ELSE issued
            /\ last' = [op |-> "require_oauth_token", cookies |-> cookies,
                        response |-> IF out.calls > 0 THEN response ELSE None,
                        calls |-> out.calls, exc |-> out.exc, ret |-> out.ret]
            /\ UNCHANGED <<now, ticks>>

Logout ==
    \E cookies \in CookieJars :
        LET out == logout(DB, cookies)
        IN  /\ Commit(out)
            /\ last' = [op |-> "logout", cookies |-> cookies,
                        exc |-> out.exc, ret |-> out.ret]
            /\ UNCHANGED <<now, ticks, issued>>

\* The credential and session tables, the clock and the token lifecycle.
\* No operation on user_credentials or user_sessions reads or writes api_keys.
Next ==
    \/ Tick
    \/ SaveUserCredentials
    \/ CreateSession
    \/ ValidateSession
    \/ InvalidateSession
    \/ UpdateTokens
    \/ ExchangeCodeForTokens
    \/ GetAccessTokenWithRefresh

Spec == Init /\ [][Next]_vars

\* The credential and API key tables.  No operation on api_keys reads or
\* writes user_sessions.
NextApiKeys ==
    \/ Tick
    \/ SaveUserCredentials
    \/ UpdateTokens
    \/ GenerateApiKey
    \/ ValidateApiKey
    \/ RevokeApiKey

SpecApiKeys == Init /\ [][NextApiKeys]_vars

\* The routes: a request authenticated by its session cookie, and logout.
NextRoutes ==
    \/ Tick
    \/ SaveUserCredentials
    \/ CreateSession
    \/ ValidateSession
    \/ InvalidateSession
    \/ RequireOAuthToken
    \/ Logout

SpecRoutes == Init /\ [][NextRoutes]_vars

SaveCredentialsOfAnyUser ==
    /\ issued < MaxTokens
    /\ \E user_info \in AllProfiles, tokens \in TokenDicts :
        LET out == save_user_credentials(DB, now, user_info, tokens)
        IN  /\ Commit(out)
            /\ issued' = issued + 1
            /\ last' = [op |-> "save_user_credentials", user_info |-> user_info,
                        tokens |-> tokens, exc |-> out.exc, ret |-> out.ret]
            /\ UNCHANGED <<now, ticks>>

\* what GET /v1.0/me answers for the account the tokens were issued to
ProfileAnswersOf(who) == {[status |-> 200, json |-> ProfileOf(who)], [status |-> 401]}

\* The token endpoint has issued the next token pair to account who; the
\* exchange builds tokens from the provider's credentials, which carry no
\* expires_in, fetches the profile and stores the tokens.
SaveExchangedTokens ==
    /\ issued < MaxTokens
    /\ \E who \in IdentityUsers :
        \E profile_response \in ProfileAnswersOf(who) :
            LET tokens == [access_token |-> AccessToken(issued + 1),
                           refresh_token |-> RefreshToken(issued + 1),
                           expires_in |-> DefaultExpiresIn,
                           token_type |-> "Bearer"]
                out == save_exchanged_tokens(DB, now, tokens, profile_response)
            IN  /\ Commit(out)
                /\ issued' = issued + 1
                /\ last' = [op |-> "save_exchanged_tokens", who |-> who,
                            tokens |-> tokens, status |-> profile_response.status,
                            exc |-> out.exc, ret |-> out.ret]
                /\ UNCHANGED <<now, ticks>>

\* Several accounts of the identity provider signing in.
NextUsers ==
    \/ Tick
    \/ SaveCredentialsOfAnyUser
    \/ SaveExchangedTokens

SpecUsers == Init /\ [][NextUsers]_vars

\* The operations that insert a row or deactivate one, with the clock;
\* update_tokens and validate_api_key rewrite fields of a row they find.
NextStore ==
    \/ Tick
    \/ SaveUserCredentials
    \/ CreateSession
    \/ ValidateSession
    \/ InvalidateSession
    \/ Logout
    \/ GenerateApiKey
    \/ RevokeApiKey

SpecStore == Init /\ [][NextStore]_vars

(* ---------------------------- storage failures ------------------------ *)

\* psycopg2.OperationalError: _get_connection() cannot connect, or the
\* connection is lost before conn.commit()
OperationalError == <<"OperationalError">>

\* The store calls of the routes; fault names the one during which the
\* storage fails in a request, "none" when every call is served.
StoreFaults == {"none", "save_user_credentials", "create_session", "update_tokens"}

\* Store call name of a request whose failing call is fault: each method
\* opens its own connection and commits on its own, so a failing call
\* commits nothing and leaves what earlier calls committed.
StoreCall(name, fault, db, out) ==
    IF fault = name THEN Raise(db, OperationalError) ELSE out

\* exchange_code_for_tokens once the provider has returned the tokens, with
\* the storage failing during the call named fault
store_exchanged_tokens(db, t, tokens, profile_response, fault) ==
    LET user_info == get_user_info(profile_response)
        saved == StoreCall("save_user_credentials", fault, db,
                           save_user_credentials(db, t, user_info, tokens))
        session == StoreCall("create_session", fault, saved.db,
                             create_session(saved.db, t, saved.ret))
    IN  IF saved.exc # None
        THEN Raise(saved.db, saved.exc)
        ELSE IF session.exc # None
             THEN Raise(session.db, session.exc)
             ELSE Return(session.db,
                         [user_id |-> saved.ret,
                          session_token |-> session.ret,
                          user_info |-> user_info,
                          access_token |-> tokens.access_token,
                          refresh_token |-> tokens.refresh_token,
                          expires_in |-> tokens.expires_in,
                          token_type |-> tokens.token_type])

\* A variant of the try block that discards the stored access token when the
\* refresh fails.
refresh_stored_tokens_discards_on_failure(db, t, user_id, refresh_token, response, fault) ==
    LET refreshed == refresh_access_token(t, refresh_token, response)
    IN  [db |-> [db EXCEPT !.user_credentials[user_id].access_token = None],
         exc |-> RefreshFailed401, raised |-> refreshed.exc,
         ret |-> None, calls |-> refreshed.calls]

\* The try block of get_access_token_with_refresh, entered when the stored
\* token has less than five minutes left: the refresh call, then
\* update_tokens; every exception of either becomes HTTP 401.  raised is the
\* exception the except clause caught.
refresh_stored_tokens(db, t, user_id, refresh_token, response, fault) ==
    LET refreshed == refresh_access_token(t, refresh_token, response)
        new_tokens == refreshed.ret
        updated == StoreCall("update_tokens", fault, db,
                             update_tokens(db, t, user_id, new_tokens.access_token,
                                           Get(new_tokens, "refresh_token", refresh_token),
                                           RefreshExpiresIn))
    IN  IF refreshed.exc # None
        THEN [db |-> db, exc |-> RefreshFailed401, raised |-> refreshed.exc,
              ret |-> None, calls |-> refreshed.calls]
        ELSE IF updated.exc # None
             THEN [db |-> updated.db, exc |-> RefreshFailed401, raised |-> updated.exc,
                   ret |-> None, calls |-> refreshed.calls]
             ELSE [db |-> updated.db, exc |-> None, raised |-> None,
                   ret |-> new_tokens.access_token, calls |-> refreshed.calls]

(* ------------------------------ HTTP layer ---------------------------- *)

\* str(e): the text of exception e
str(e) == <<"str", e>>

\* f"{prefix}{str(e)}"
Format(prefix, e) == <<prefix, str(e)>>

\* HTTPException(status_code, detail) as the framework renders it
HTTPException(status_code, detail) ==
    [status_code |-> status_code, body |-> [detail |-> detail]]

\* main.py: the answer to an exception no route caught
global_exception_handler(t, exc) ==
    [status_code |-> 500,
     body |-> [error |-> "Internal server error",
               message |-> "An unexpected error occurred",
               timestamp |-> isoformat(t)]]

\* GET /client/callback-handler, given the outcome of the awaited
\* exchange_code_for_tokens: a redirect that sets the session cookie, or
\* HTTP 400 for every exception.
client_oauth_callback_handler(result) ==
    IF result.exc # None
    THEN [db |-> result.db, raised |-> result.exc,
          response |-> HTTPException(400, Format("OAuth callback error: ", result.exc))]
    ELSE [db |-> result.db, raised |-> None,
          response |-> [status_code |-> 302, url |-> "/client",
                        set_cookie |-> [session_token |-> result.ret.session_token,
                                        max_age |-> 24 * 3600]]]

\* GET /oauth/get_credentials?code=
get_credentials(db, t, code, credentials, profile_response, fault) ==
    IF code = ""
    THEN [db |-> db, raised |-> <<"HTTP400">>,
          response |-> HTTPException(400, <<"Authorization code is required">>)]
    ELSE IF oauth_get_credentials_params \ exchange_call_arguments # {}
         THEN [db |-> db, raised |-> <<"TypeError">>,
               response |-> HTTPException(
                   500, Format("Failed to get credentials: ", <<"TypeError">>))]
         ELSE LET provided == oauth_get_credentials(t, code, credentials)
                  tokens == [access_token |-> Get(provided.ret.credentials,
                                                  "access_token", None),
                             refresh_token |-> Get(provided.ret.credentials,
                                                   "refresh_token", None),
                             expires_in |-> Get(provided.ret.credentials,
                                                "expires_in", DefaultExpiresIn),
                             token_type |-> "Bearer"]
                  stored == store_exchanged_tokens(db, t, tokens, profile_response,
                                                   fault)
              IN  IF provided.exc # None
                  THEN [db |-> db, raised |-> provided.exc,
                        response |-> HTTPException(
                            500, Format("Failed to get credentials: ", provided.exc))]
                  ELSE IF stored.exc # None
                       THEN [db |-> stored.db, raised |-> stored.exc,
                             response |-> HTTPException(
                                 500, Format("Failed to get credentials: ", stored.exc))]
                       ELSE [db |-> stored.db, raised |-> None,
                             response |->
                                 [status_code |-> 200,
                                  body |-> [message |-> "Credentials obtained and saved successfully",
                                            access_token |-> tokens.access_token,
                                            refresh_token |-> tokens.refresh_token,
                                            expires_at |-> provided.ret.expires_at,
                                            token_type |-> "Bearer",
                                            user_id |-> stored.ret.user_id,
                                            session_token |-> stored.ret.session_token,
                                            user_info |-> stored.ret.user_info]]]

(* ------------------- requests during a storage failure ---------------- *)

\* GET /oauth/get_credentials
GetCredentials ==
    \E input \in ExchangeInputs, profile_response \in ProfileAnswers,
       fault \in {"none", "save_user_credentials", "create_session"} :
        LET out == get_credentials(DB, now, input.code, input.credentials,
                                   profile_response, fault)
        IN  /\ Commit(out)
            /\ last' = [op |-> "get_credentials", input |-> input,
                        raised |-> out.raised, response |-> out.response]
            /\ UNCHANGED <<now, ticks, issued>>

\* GET /client/callback-handler
ClientOAuthCallbackHandler ==
    \E input \in ExchangeInputs, profile_response \in ProfileAnswers :
        LET out == client_oauth_callback_handler(
                       exchange_code_for_tokens(DB, now, input.code,
                                                input.credentials, profile_response))
        IN  /\ Commit(out)
            /\ last' = [op |-> "client_oauth_callback_handler", input |-> input,
                        raised |-> out.raised, response |-> out.response]
            /\ UNCHANGED <<now, ticks, issued>>

\* GET /client/callback-handler from the point where the provider has
\* returned the next token pair: the profile fetch, the two store calls and
\* the handler's answer.
CallbackStoresTokens ==
    /\ issued < MaxTokens
    /\ Cardinality(DOMAIN user_sessions) < MaxSessions
    /\ \E profile_response \in ProfileAnswers,
          fault \in {"none", "save_user_credentials", "create_session"} :
        LET tokens == [access_token |-> AccessToken(issued + 1),
                       refresh_token |-> RefreshToken(issued + 1),
                       expires_in |-> DefaultExpiresIn,
                       token_type |-> "Bearer"]
            out == client_oauth_callback_handler(
                       store_exchanged_tokens(DB, now, tokens, profile_response, fault))
        IN  /\ Commit(out)
            /\ issued' = issued + 1
            /\ last' = [op |-> "callback_stores_tokens", tokens |-> tokens,
                        status |-> profile_response.status, fault |-> fault,
                        raised |-> out.raised, response |-> out.response]
            /\ UNCHANGED <<now, ticks>>

\* The try block of get_access_token_with_refresh run for the owner of a
\* valid session whose stored token has less than five minutes left, with
\* the refresh token stored for that owner.
RefreshStoredTokens ==
    \E c \in DOMAIN user_sessions, response \in RefreshAnswers,
       fault \in {"none", "update_tokens"} :
        /\ validate_session(DB, now, c).ret # None
        /\ user_credentials[user_sessions[c].user_id].token_expires_at - now
               < RefreshMarginSeconds
        /\ LET user_id == user_sessions[c].user_id
               out == refresh_stored_tokens(DB, now, user_id,
                                            user_credentials[user_id].refresh_token,
                                            response, fault)
           IN  /\ Commit(out)
               /\ issued' = IF out.calls > 0 /\ response.status = 200
                            THEN issued + 1 ELSE issued
               /\ last' = [op |-> "refresh_stored_tokens", session_token |-> c,
                           user_id |-> user_id, fault |-> fault,
                           calls |-> out.calls, raised |-> out.raised,
                           exc |-> out.exc, ret |-> out.ret]
               /\ UNCHANGED <<now, ticks>>

\* GET /emails/list with a session cookie while the store cannot be reached:
\* validate_session raises inside get_current_user, before the try block of
\* get_access_token_with_refresh and before the route body, so the exception
\* reaches the top-level handler.
ListEmailsStoreUnreachable ==
    \E cookies \in CookieJars \ {<<>>} :
        /\ Commit(Raise(DB, OperationalError))
        /\ last' = [op |-> "list_emails_store_unreachable", cookies |-> cookies,
                    raised |-> OperationalError,
                    response |-> global_exception_handler(now, OperationalError)]
        /\ UNCHANGED <<now, ticks, issued>>

\* The sign-in routes and the refresh, each with the storage failing during
\* any one of its store calls.
NextFaults ==
    \/ Tick
    \/ ListEmailsStoreUnreachable
    \/ GetCredentials
    \/ ClientOAuthCallbackHandler
    \/ CallbackStoresTokens
    \/ RefreshStoredTokens

SpecFaults == Init /\ [][NextFaults]_vars

(* --------------------- tools/*.py: the Graph proxy tools -------------- *)

\* Answers of the resource API with an error status, and the
\* requests.RequestException raised when no answer arrives.
GraphErrors ==
    {[status_code |-> 401, text |-> "InvalidAuthenticationToken"],
     [status_code |-> 404, text |-> "ErrorItemNotFound"],
     [status_code |-> 503, text |-> "ServiceUnavailable"]}
NetworkFailure == [exception |-> "ConnectionError"]

\* self.create_text_message(text) / self.create_json_message(json)
create_text_message(text) == [message |-> [text |-> text]]
create_json_message(json) == [message |-> [json_object |-> json]]

\* an outbound request to the resource API
GraphRequest(method, access_token, id) ==
    [method |-> method, url |-> <<"https://graph.microsoft.com/v1.0/me/messages/", id>>,
     bearer |-> access_token]

\* DeleteEmailTool._delete_email: a dict on 204, an error string otherwise;
\* answer is what requests.delete met.
DeleteEmailTool_delete_email(access_token, message_id, answer) ==
    LET sent == <<GraphRequest("DELETE", access_token, message_id)>>
    IN  IF "exception" \in DOMAIN answer
        THEN [is_str |-> TRUE,
              value |-> <<"Network error during deletion: ", answer.exception>>,
              requests |-> sent]
        ELSE IF answer.status_code = 204
             THEN [is_str |-> FALSE,
                   value |-> [status |-> "success",
                              message |-> <<"Email with ID ", message_id, " deleted.">>],
                   requests |-> sent]
             ELSE [is_str |-> TRUE,
                   value |-> <<"Failed to delete email: ", answer.text>>,
                   requests |-> sent]

\* DeleteEmailTool._invoke: the messages it yields and the requests it sent
DeleteEmailTool_invoke(tool_parameters, answer) ==
    LET message_id == Get(tool_parameters, "message_id", "")
        access_token == Get(tool_parameters, "access_token", None)
        response == DeleteEmailTool_delete_email(access_token, message_id, answer)
    IN  IF message_id = ""
        THEN [messages |-> <<create_text_message(<<"Message ID is required.">>)>>,
              requests |-> <<>>]
        ELSE IF Falsy(access_token)
             THEN [messages |->
                       <<create_text_message(<<"Access token is required in credentials.">>)>>,
                   requests |-> <<>>]
             ELSE IF response.is_str
                  THEN [messages |-> <<create_text_message(response.value)>>,
                        requests |-> response.requests]
                  ELSE [messages |->
                            <<create_text_message(
                                  <<"Email with ID ", message_id, " deleted successfully.">>)>>,
                        requests |-> response.requests]

\* _update_email_message that sends the PATCH again after an error status
UpdateMessageTool_update_email_message_retrying(access_token, email_id, subject, body_content, body_type, answer) ==
    LET sent == <<GraphRequest("PATCH", access_token, email_id)>>
    IN  IF "exception" \in DOMAIN answer
        THEN [is_str |-> TRUE, value |-> <<"Network error: ", answer.exception>>,
              requests |-> sent]
        ELSE IF answer.status_code = 200
             THEN [is_str |-> FALSE, value |-> answer.json, requests |-> sent]
             ELSE IF answer.status_code = 401
                  THEN [is_str |-> TRUE,
                        value |-> <<"Authentication failed. Token may be expired.">>,
                        requests |-> sent \o sent]
                  ELSE IF answer.status_code = 403
                       THEN [is_str |-> TRUE,
                             value |-> <<"Access denied. Check app permissions (Mail.ReadWrite required).">>,
                             requests |-> sent \o sent]
                       ELSE IF answer.status_code = 404
                            THEN [is_str |-> TRUE,
                                  value |-> <<"Email with ID '", email_id, "' not found.">>,
                                  requests |-> sent \o sent]
                            ELSE [is_str |-> TRUE,
                                  value |-> <<"API error ", answer.status_code, ": ",
                                              answer.text>>,
                                  requests |-> sent \o sent]

\* UpdateMessageTool._update_email_message: the message's JSON on 200, an
\* error string otherwise; answer is what requests.patch met.
UpdateMessageTool_update_email_message(access_token, email_id, subject, body_content, body_type, answer) ==
    LET sent == <<GraphRequest("PATCH", access_token, email_id)>>
    IN  IF "exception" \in DOMAIN answer
        THEN [is_str |-> TRUE, value |-> <<"Network error: ", answer.exception>>,
              requests |-> sent]
        ELSE IF answer.status_code = 200
             THEN [is_str |-> FALSE, value |-> answer.json, requests |-> sent]
             ELSE IF answer.status_code = 401
                  THEN [is_str |-> TRUE,
                        value |-> <<"Authentication failed. Token may be expired.">>,
                        requests |-> sent]
                  ELSE IF answer.status_code = 403
                       THEN [is_str |-> TRUE,
                             value |-> <<"Access denied. Check app permissions (Mail.ReadWrite required).">>,
                             requests |-> sent]
                       ELSE IF answer.status_code = 404
                            THEN [is_str |-> TRUE,
                                  value |-> <<"Email with ID '", email_id, "' not found.">>,
                                  requests |-> sent]
                            ELSE [is_str |-> TRUE,
                                  value |-> <<"API error ", answer.status_code, ": ",
                                              answer.text>>,
                                  requests |-> sent]

\* UpdateMessageTool._invoke
UpdateMessageTool_invoke(tool_parameters, answer) ==
    LET email_id == Get(tool_parameters, "email_id", "")
        subject == Get(tool_parameters, "subject", None)
        body_content == Get(tool_parameters, "body_content", None)
        body_type == Get(tool_parameters, "body_type", "text")
        access_token == Get(tool_parameters, "access_token", None)
        result == UpdateMessageTool_update_email_message(
                      access_token, email_id, subject, body_content, body_type, answer)
    IN  IF email_id = ""
        THEN [messages |-> <<create_text_message(<<"Email ID is required.">>)>>,
              requests |-> <<>>]
        ELSE IF subject = None /\ body_content = None
             THEN [messages |->
                       <<create_text_message(
                             <<"At least one of subject or body content must be provided.">>)>>,
                   requests |-> <<>>]
             ELSE IF Falsy(access_token)
                  THEN [messages |->
                            <<create_text_message(
                                  <<"Access token is required in credentials.">>)>>,
                        requests |-> <<>>]
                  ELSE IF result.is_str
                       THEN [messages |-> <<create_text_message(result.value)>>,
                             requests |-> result.requests]
                       ELSE [messages |->
                                 <<create_text_message(<<"Email updated successfully!">>),
                                   create_json_message(result.value)>>,
                             requests |-> result.requests]

\* tools/list_message.py: one GET of the folder's messages with the bearer
\* token, mapped to one message per e-mail or to an error text
ListMessageTool_invoke(tool_parameters, answer) ==
    LET sent == <<GraphRequest("GET", tool_parameters.access_token,
                               tool_parameters.folder)>>
    IN  IF "exception" \in DOMAIN answer
        THEN [messages |-> <<create_text_message(<<"Network error: ", answer.exception>>)>>,
              requests |-> sent]
        ELSE IF answer.status_code = 200
             THEN [messages |-> <<create_json_message(answer.json)>>, requests |-> sent]
             ELSE [messages |-> <<create_text_message(<<"Failed to list emails: ",
                                                         answer.text>>)>>,
                   requests |-> sent]

(* ---------------- services/email_service.py: EmailService ------------- *)

\* the text of the first message, its str() when it has no text
EmailService_extract_result(messages) ==
    IF messages # <<>>
    THEN LET first_message == messages[1]
         IN  IF "message" \in DOMAIN first_message
             THEN IF "text" \in DOMAIN first_message.message
                  THEN first_message.message.text
                  ELSE str(first_message.message)
             ELSE str(first_message)
    ELSE <<"No result returned">>

\* every message's payload
EmailService_extract_messages(messages) ==
    [i \in DOMAIN messages |->
        IF "message" \in DOMAIN messages[i] THEN messages[i].message ELSE messages[i]]

EmailService_list_emails(t, access_token, folder, answer) ==
    LET invoke == ListMessageTool_invoke(
                      [folder |-> folder, access_token |-> access_token], answer)
    IN  [exc |-> None, ret |-> EmailService_extract_messages(invoke.messages),
         requests |-> invoke.requests]

EmailService_delete_email(t, access_token, message_id, answer) ==
    LET invoke == DeleteEmailTool_invoke(
                      [message_id |-> message_id, access_token |-> access_token], answer)
    IN  [exc |-> None,
         ret |-> [result |-> EmailService_extract_result(invoke.messages),
                  deleted_at |-> <<isoformat(t), "Z">>],
         requests |-> invoke.requests]

EmailService_update_email(t, access_token, email_id, request, answer) ==
    LET invoke == UpdateMessageTool_invoke(
                      [email_id |-> email_id,
                       subject |-> request.subject,
                       body_content |-> request.body_content,
                       body_type |-> request.body_type,
                       access_token |-> access_token], answer)
    IN  [exc |-> None,
         ret |-> [result |-> EmailService_extract_result(invoke.messages),
                  updated_at |-> <<isoformat(t), "Z">>],
         requests |-> invoke.requests]

(* ------------------------- routers/email.py --------------------------- *)

\* Header(..., alias="Authorization") on a request without the header: the
\* framework answers 422 before the dependency runs
MissingHeader422 == <<"HTTP422", "Field required: header Authorization">>
InvalidHeader401 ==
    <<"HTTP401", "Invalid authorization header format. Use 'Bearer <token>'">>
TokenRequired401 == <<"HTTP401", "Access token is required">>

\* the answer the framework renders for an HTTPException <<"HTTPnnn", detail>>
Rendered(exc) ==
    HTTPException(IF exc[1] = "HTTP401" THEN 401
                  ELSE IF exc[1] = "HTTP422" THEN 422 ELSE 400,
                  <<exc[2]>>)

\* get_access_token: the Authorization header is a scheme followed by the
\* credentials; startswith("Bearer ") tests the scheme and replace leaves
\* the credentials.
get_access_token(headers) ==
    IF "Authorization" \notin DOMAIN headers
    THEN [exc |-> MissingHeader422, ret |-> None]
    ELSE IF headers.Authorization.scheme # "Bearer "
         THEN [exc |-> InvalidHeader401, ret |-> None]
         ELSE IF Falsy(headers.Authorization.credentials)
              THEN [exc |-> TokenRequired401, ret |-> None]
              ELSE [exc |-> None, ret |-> headers.Authorization.credentials]

\* fields UpdateEmailResponse declares without a default, and the keyword
\* arguments update_email constructs it with
UpdateEmailResponse_required == {"email_id", "updated_at", "updated_fields"}
update_email_response_arguments == {"message", "updated_at"}

\* GET /emails/list: authenticated by require_oauth_token (session cookie)
list_emails(db, t, cookies, headers, folder, token_response, answer) ==
    LET access_token == require_oauth_token(db, t, cookies, token_response)
        result == EmailService_list_emails(t, access_token.ret, folder, answer)
    IN  IF access_token.exc # None
        THEN [db |-> access_token.db, raised |-> access_token.exc,
              response |-> Rendered(access_token.exc),
              requests |-> <<>>, calls |-> access_token.calls]
        ELSE [db |-> access_token.db, raised |-> None,
              response |-> [status_code |-> 200,
                            body |-> [status |-> "success",
                                      message |-> <<"Emails retrieved successfully">>,
                                      emails |-> result.ret]],
              requests |-> result.requests, calls |-> access_token.calls]

\* DELETE /emails/{email_id}: authenticated by get_access_token (header)
delete_email(db, t, cookies, headers, email_id, answer) ==
    LET access_token == get_access_token(headers)
        result == EmailService_delete_email(t, access_token.ret, email_id, answer)
    IN  IF access_token.exc # None
        THEN [db |-> db, raised |-> access_token.exc,
              response |-> Rendered(access_token.exc),
              requests |-> <<>>, calls |-> 0]
        ELSE [db |-> db, raised |-> None,
              response |-> [status_code |-> 200,
                            body |-> [status |-> "success",
                                      message |-> result.ret.result,
                                      timestamp |-> result.ret.deleted_at]],
              requests |-> result.requests, calls |-> 0]

\* PATCH /emails/{email_id}: authenticated by get_access_token (header);
\* constructing UpdateEmailResponse without its required fields raises
\* pydantic's ValidationError inside the try block.
update_email(db, t, cookies, headers, email_id, request, answer) ==
    LET access_token == get_access_token(headers)
        result == EmailService_update_email(t, access_token.ret, email_id, request,
                                            answer)
        missing == UpdateEmailResponse_required \ update_email_response_arguments
    IN  IF access_token.exc # None
        THEN [db |-> db, raised |-> access_token.exc,
              response |-> Rendered(access_token.exc),
              requests |-> <<>>, calls |-> 0]
        ELSE IF missing # {}
             THEN [db |-> db, raised |-> <<"ValidationError", missing>>,
                   response |-> HTTPException(
                       500, Format("Failed to update email: ",
                                   <<"ValidationError", missing>>)),
                   requests |-> result.requests, calls |-> 0]
             ELSE [db |-> db, raised |-> None,
                   response |-> [status_code |-> 200,
                                 body |-> [status |-> "success",
                                           message |-> result.ret.result,
                                           updated_at |-> result.ret.updated_at]],
                   requests |-> result.requests, calls |-> 0]

(* ----------------------- requests to /emails -------------------------- *)

\* The access tokens the identity provider has issued, which the resource
\* API accepts, and a token it never issued.
IssuedAccessTokens == {AccessToken(n) : n \in 1..issued}
ForgedToken == AccessToken(0)

\* Authorization headers of a request: none, another scheme, "Bearer " with
\* nothing after it, and a bearer token.
HeaderSets ==
    {<<>>,
     [Authorization |-> [scheme |-> "Basic ", credentials |-> <<"dXNlcjpwdw==">>]],
     [Authorization |-> [scheme |-> "Bearer ", credentials |-> None]]}
    \cup {[Authorization |-> [scheme |-> "Bearer ", credentials |-> a]] :
          a \in IssuedAccessTokens \cup {ForgedToken}}

\* the bearer token of a request, None without one
BearerOf(headers) ==
    IF "Authorization" \in DOMAIN headers /\ headers.Authorization.scheme = "Bearer "
    THEN headers.Authorization.credentials ELSE None

\* What the resource API answers to a request with the given method: to a
\* token that was never issued 401 or nothing at all, to an issued one also
\* the success status and the other errors.
GraphAnswers(method, access_token) ==
    {NetworkFailure, [status_code |-> 401, text |-> "InvalidAuthenticationToken"]}
    \cup IF access_token \in IssuedAccessTokens
         THEN GraphErrors
              \cup {IF method = "DELETE"
                    THEN [status_code |-> 204, text |-> ""]
                    ELSE [status_code |-> 200, text |-> "",
                          json |-> [id |-> "AAMk1", subject |-> <<"Re: plan">>]]}
         ELSE {}

EmailIds == {"AAMk1"}
UpdateEmailRequests ==
    {[subject |-> <<"Re: plan">>, body_content |-> None, body_type |-> "text"],
     [subject |-> None, body_content |-> None, body_type |-> "text"]}

ListEmails ==
    \E cookies \in CookieJars, headers \in HeaderSets,
       token_response \in RefreshAnswers :
        \E answer \in GraphAnswers(
                           "GET", require_oauth_token(DB, now, cookies,
                                                      token_response).ret) :
            \E out \in {list_emails(DB, now, cookies, headers, "inbox",
                                   token_response, answer)} :
                /\ Commit(out)
                /\ issued' = IF out.calls > 0 /\ token_response.status = 200
                             THEN issued + 1 ELSE issued
                /\ last' = [op |-> "list_emails", cookies |-> cookies,
                            headers |-> headers,
                            answer |-> IF out.requests # <<>> THEN answer ELSE None,
                            raised |-> out.raised, response |-> out.response,
                            requests |-> out.requests, calls |-> out.calls]
                /\ UNCHANGED <<now, ticks>>

DeleteEmail ==
    \E cookies \in CookieJars, headers \in HeaderSets, email_id \in EmailIds :
        \E answer \in GraphAnswers("DELETE", BearerOf(headers)) :
            \E out \in {delete_email(DB, now, cookies, headers, email_id, answer)} :
                /\ Commit(out)
                /\ last' = [op |-> "delete_email", cookies |-> cookies,
                            headers |-> headers,
                            answer |-> IF out.requests # <<>> THEN answer ELSE None,
                            raised |-> out.raised, response |-> out.response,
                            requests |-> out.requests, calls |-> out.calls]
                /\ UNCHANGED <<now, ticks, issued>>

UpdateEmail ==
    \E cookies \in CookieJars, headers \in HeaderSets, email_id \in EmailIds,
       request \in UpdateEmailRequests :
        \E answer \in GraphAnswers("PATCH", BearerOf(headers)) :
            \E out \in {update_email(DB, now, cookies, headers, email_id, request,
                                    answer)} :
                /\ Commit(out)
                /\ last' = [op |-> "update_email", cookies |-> cookies,
                            headers |-> headers,
                            answer |-> IF out.requests # <<>> THEN answer ELSE None,
                            raised |-> out.raised, response |-> out.response,
                            requests |-> out.requests, calls |-> out.calls]
                /\ UNCHANGED <<now, ticks, issued>>

\* A sign-in of the mailbox owner: the exchange from the point where the
\* provider has returned the next token pair, with the profile fetched.
SignIn ==
    /\ issued < MaxTokens
    /\ Cardinality(DOMAIN user_sessions) < MaxSessions
    /\ LET tokens == [access_token |-> AccessToken(issued + 1),
                      refresh_token |-> RefreshToken(issued + 1),
                      expires_in |-> DefaultExpiresIn,
                      token_type |-> "Bearer"]
           out == save_exchanged_tokens(DB, now, tokens,
                                        [status |-> 200, json |-> ProfileAlice])
       IN  /\ Commit(out)
           /\ issued' = issued + 1
           /\ last' = [op |-> "save_exchanged_tokens", who |-> "alice",
                       tokens |-> tokens, status |-> 200,
                       exc |-> out.exc, ret |-> out.ret]
           /\ UNCHANGED <<now, ticks>>

\* The /emails routes over the store of a signed-in user.
NextProxy ==
    \/ Tick
    \/ SignIn
    \/ ListEmails
    \/ DeleteEmail
    \/ UpdateEmail

SpecProxy == Init /\ [][NextProxy]_vars

(* ------------------ several logins and keys of one account ------------ *)

\* An account signs in again: the exchange stores the next token pair and
\* opens one more session.
LogIn ==
    /\ issued < MaxTokens
    /\ Cardinality(DOMAIN user_sessions) < MaxLogins
    /\ \E who \in IdentityUsers :
        \E out \in {save_exchanged_tokens(
                        DB, now,
                        [access_token |-> AccessToken(issued + 1),
                         refresh_token |-> RefreshToken(issued + 1),
                         expires_in |-> DefaultExpiresIn,
                         token_type |-> "Bearer"],
                        [status |-> 200, json |-> ProfileOf(who)])} :
            /\ Commit(out)
            /\ issued' = issued + 1
            /\ last' = [op |-> "save_exchanged_tokens", who |-> who,
                        exc |-> out.exc, ret |-> out.ret]
            /\ UNCHANGED <<now, ticks>>

\* generate_api_key for a stored user
IssueApiKey ==
    /\ Cardinality(DOMAIN api_keys) < MaxUserKeys
    /\ \E user_id \in DOMAIN user_credentials :
        \E out \in {generate_api_key(DB, user_id, "Default")} :
            /\ Commit(out)
            /\ last' = [op |-> "generate_api_key", user_id |-> user_id,
                        exc |-> out.exc, ret |-> out.ret]
            /\ UNCHANGED <<now, ticks, issued>>

\* invalidate_session with a stored token, or with one that was never issued
InvalidateStoredSession ==
    \E session_token \in DOMAIN user_sessions \cup {SessionToken(0)} :
        \E out \in {invalidate_session(DB, session_token)} :
            /\ Commit(out)
            /\ last' = [op |-> "invalidate_session", session_token |-> session_token,
                        exc |-> out.exc, ret |-> out.ret]
            /\ UNCHANGED <<now, ticks, issued>>

\* revoke_api_key with a stored key, or with one that was never issued
RevokeStoredApiKey ==
    \E api_key \in DOMAIN api_keys \cup {ApiKey(0)} :
        \E out \in {revoke_api_key(DB, api_key)} :
            /\ Commit(out)
            /\ last' = [op |-> "revoke_api_key", api_key |-> api_key,
                        exc |-> out.exc, ret |-> out.ret]
            /\ UNCHANGED <<now, ticks, issued>>

\* Accounts that sign in more than once and hold more than one key, within
\* the lifetime of their sessions (the clock stands still).
NextFrame ==
    \/ LogIn
    \/ IssueApiKey
    \/ InvalidateStoredSession
    \/ RevokeStoredApiKey

SpecFrame == Init /\ [][NextFrame]_vars

(* ============================== claims ================================ *)

\* the tables of the next state
TablesUnchanged == UNCHANGED <<user_credentials, user_sessions, api_keys>>

\* validate_session would accept session c now: the row exists, is active,
\* has not expired, and its credential is active
SessionValid(c) ==
    /\ c \in DOMAIN user_sessions
    /\ user_sessions[c].is_active
    /\ user_sessions[c].expires_at >= now
    /\ user_sessions[c].user_id \in DOMAIN user_credentials
    /\ user_credentials[user_sessions[c].user_id].is_active

Owner(c) == user_credentials[user_sessions[c].user_id]

\* seconds left before the stored access token of c's owner expires
Remaining(c) == Owner(c).token_expires_at - now

\* the step is a get_access_token_with_refresh request carrying cookie c
RefreshRequestStep(c) ==
    /\ last'.op = "get_access_token_with_refresh"
    /\ last'.cookies = [session_token |-> c]

ValidateSessionStep(c) ==
    /\ last'.op = "validate_session"
    /\ last'.session_token = c

\* C1: for every authorization code the provider accepts,
\* exchange_code_for_tokens succeeds, stores a credential whose
\* token_expires_at is the exchange time plus the expires_in the provider
\* returned, and returns a session token that validate_session accepts at once.
C1_ExchangeStoresProviderExpiry ==
    ( /\ last.op = "exchange_code_for_tokens"
      /\ last.input.code # ""
      /\ "access_token" \in DOMAIN last.input.credentials
      /\ "refresh_token" \in DOMAIN last.input.credentials )
    => /\ last.ret # None
       /\ last.ret.user_id \in DOMAIN user_credentials
       /\ user_credentials[last.ret.user_id].token_expires_at
              = now + last.input.credentials.expires_in
       /\ validate_session(DB, now, last.ret.session_token).ret # None

\* C2: a request with a valid session whose stored access token has more than
\* five minutes left gets exactly the stored access token, sends nothing to
\* the token endpoint and writes nothing to the store.
C2_FreshTokenReturnedUnchanged ==
    [][ \A c \in SessionTokens :
          ( SessionValid(c) /\ Remaining(c) > RefreshMarginSeconds
            /\ RefreshRequestStep(c) )
          => /\ last'.ret = Owner(c).access_token
             /\ last'.calls = 0
             /\ TablesUnchanged ]_vars

\* C3: a request with a valid session whose stored access token has fewer
\* than five minutes left, or has expired, sends exactly one refresh request
\* to the token endpoint.
C3_ExactlyOneRefreshCall ==
    [][ \A c \in SessionTokens :
          ( SessionValid(c) /\ Remaining(c) < RefreshMarginSeconds
            /\ RefreshRequestStep(c) )
          => last'.calls = 1 ]_vars

\* C4: validate_session on a session whose expires_at has elapsed returns
\* absent and leaves the session inactive; the session then stays inactive,
\* and every later validate_session on it returns absent and changes nothing.
C4_ExpiredSessionInvalidated ==
    [][ \A c \in DOMAIN user_sessions :
          user_sessions[c].expires_at < now
          => /\ ValidateSessionStep(c)
                => /\ last'.ret = None
                   /\ ~user_sessions'[c].is_active
                   /\ user_sessions[c].is_active
                      \/ TablesUnchanged
             /\ ~user_sessions[c].is_active
                => /\ c \in DOMAIN user_sessions'
                   /\ ~user_sessions'[c].is_active ]_vars

\* C4 witness: an expired session has been validated, the call returned
\* absent and the session is inactive.
C4_Witness ==
    \E c \in DOMAIN user_sessions :
        /\ last.op = "validate_session"
        /\ last.session_token = c
        /\ last.ret = None
        /\ user_sessions[c].expires_at < now
        /\ ~user_sessions[c].is_active

\* seconds since session c was created
SessionAge(c) == now - user_sessions[c].created_at

UpdateTokensStep(u) ==
    /\ last'.op = "update_tokens"
    /\ last'.user_id = u
    /\ issued' = issued + 1

\* C6 as stated: after two update_tokens calls for the same user with
\* different access tokens, the stored access token, refresh token and
\* expiry are those of the later call and nothing of the earlier call
\* remains, also when the later call passes no refresh token.
C6_OnlyLaterCallRemains ==
    [][ \A u \in DOMAIN user_credentials :
          ( /\ last.op = "update_tokens"
            /\ last.user_id = u
            /\ UpdateTokensStep(u)
            /\ last'.access_token # last.access_token )
          => /\ user_credentials'[u].access_token = last'.access_token
             /\ user_credentials'[u].token_expires_at = now + last'.expires_in
             /\ IF last'.refresh_token # None
                THEN user_credentials'[u].refresh_token = last'.refresh_token
                ELSE \/ last.refresh_token = None
                     \/ user_credentials'[u].refresh_token # last.refresh_token ]_vars

\* C6 as amended: after an update_tokens call for a stored user (in
\* particular the later of two calls) the stored access token and expiry are
\* those of that call; the stored refresh token is that call's when it passes
\* one, and the refresh token stored before the call is retained when it
\* passes none.
C6_LaterCallWinsRefreshRetained ==
    [][ \A u \in DOMAIN user_credentials :
          UpdateTokensStep(u)
          => /\ user_credentials'[u].access_token = last'.access_token
             /\ user_credentials'[u].token_expires_at = now + last'.expires_in
             /\ user_credentials'[u].refresh_token
                    = IF last'.refresh_token # None
                      THEN last'.refresh_token
                      ELSE user_credentials[u].refresh_token
             /\ user_credentials'[u].email = user_credentials[u].email
             /\ user_credentials'[u].is_active = user_credentials[u].is_active ]_vars

\* C6 witness: the third token pair was written by an update_tokens call
\* that passed no refresh token, and the refresh token of the second pair is
\* still stored with the third access token.
C6_Witness ==
    \E u \in DOMAIN user_credentials :
        /\ last.op = "update_tokens"
        /\ last.user_id = u
        /\ last.refresh_token = None
        /\ issued = 3
        /\ user_credentials[u].access_token = AccessToken(3)
        /\ user_credentials[u].refresh_token = RefreshToken(2)

C8_EveryRefreshRequestGetsIssuedToken ==
    [][ \A c \in SessionTokens :
          ( SessionValid(c) /\ Remaining(c) < RefreshMarginSeconds
            /\ RefreshRequestStep(c) )
          => /\ last'.ret \in {AccessToken(n) : n \in 1..issued'}
             /\ user_credentials'[user_sessions[c].user_id].access_token
                    = last'.ret ]_vars

\* answers of the token endpoint that carry a new access token
GrantingAnswers == {r \in RefreshAnswers : r.status = 200}

\* C9: after a refresh performed by get_access_token_with_refresh the stored
\* token_expires_at is the refresh time plus the expires_in the provider
\* returned with the new access token.
C9_ExpiryFollowsProviderAnswer ==
    \A c \in SessionTokens :
        ( SessionValid(c) /\ Remaining(c) < RefreshMarginSeconds )
        => \A response \in GrantingAnswers :
               "refresh_token" \in DOMAIN response.body
               => get_access_token_with_refresh(
                      DB, now, [session_token |-> c], response
                  ).db.user_credentials[user_sessions[c].user_id].token_expires_at
                  = now + response.body.expires_in

\* C10: when the token is refreshed and the provider's answer carries no new
\* refresh token, the stored refresh token is retained, the access token and
\* expiry are updated, and the refreshed access token is returned.
C10_RefreshTokenRetained ==
    \A c \in SessionTokens :
        ( SessionValid(c) /\ Remaining(c) < RefreshMarginSeconds )
        => \A response \in GrantingAnswers :
               "refresh_token" \notin DOMAIN response.body
               => LET out == get_access_token_with_refresh(
                                 DB, now, [session_token |-> c], response)
                      after == out.db.user_credentials[user_sessions[c].user_id]
                  IN  /\ out.ret = response.body.access_token
                      /\ after.access_token = response.body.access_token
                      /\ after.refresh_token = Owner(c).refresh_token
                      /\ after.token_expires_at > Owner(c).token_expires_at

\* the user data a request carrying session cookie c resolves to
UserData(c) == get_current_user(DB, now, [session_token |-> c]).ret

\* the resolved user data of c lacks a required field
FieldMissing(c) ==
    \/ Falsy(Get(UserData(c), "access_token", None))
    \/ Falsy(Get(UserData(c), "refresh_token", None))
    \/ Falsy(Get(UserData(c), "token_expires_at", None))
    \/ Get(UserData(c), "user_id", "") = ""

\* C11 as stated: when the user data resolved for a request lacks a required
\* field, or the refresh call fails, get_access_token_with_refresh fails
\* with HTTP 401 and returns no access token.
C11_MissingFieldRaises401 ==
    \A c \in SessionTokens, response \in RefreshAnswers :
        LET out == get_access_token_with_refresh(
                       DB, now, [session_token |-> c], response)
        IN  ( /\ SessionValid(c)
              /\ \/ FieldMissing(c)
                 \/ /\ Remaining(c) < RefreshMarginSeconds
                    /\ refresh_access_token(
                           now, UserData(c).refresh_token, response).exc # None )
            => /\ out.exc # None
               /\ out.exc[1] = "HTTP401"
               /\ out.ret = None

\* C11 as amended: when the resolved user data lacks a required field,
\* get_access_token_with_refresh returns absent without raising and without
\* calling the token endpoint, and require_oauth_token turns the absent
\* result into HTTP 401 (authentication required); whenever
\* get_access_token_with_refresh itself raises, it raises the HTTP 401 of a
\* failed refresh; in neither case is an access token returned.
C11_AbsentThen401ByRequire ==
    \A c \in SessionTokens, response \in RefreshAnswers :
        LET cookies == [session_token |-> c]
            out == get_access_token_with_refresh(DB, now, cookies, response)
            required == require_oauth_token(DB, now, cookies, response)
        IN  SessionValid(c)
            => /\ FieldMissing(c)
                  => /\ out.exc = None
                     /\ out.ret = None
                     /\ out.calls = 0
                     /\ required.exc = AuthRequired401
                     /\ required.ret = None
               /\ out.exc # None
                  => /\ out.exc = RefreshFailed401
                     /\ out.ret = None
                     /\ required.exc = RefreshFailed401
                     /\ required.ret = None

\* C11 witness: a request with a valid session, whose user data has no
\* refresh token, was refused by require_oauth_token with HTTP 401.
C11_Witness ==
    \E c \in SessionTokens :
        /\ last.op = "require_oauth_token"
        /\ last.cookies = [session_token |-> c]
        /\ SessionValid(c)
        /\ FieldMissing(c)
        /\ last.exc = AuthRequired401
        /\ last.ret = None

\* an authorization code the exchange must refuse: empty, rejected by the
\* token endpoint, or answered without an access or a refresh token
Refused(input) ==
    \/ input.code = ""
    \/ "access_token" \notin DOMAIN input.credentials
    \/ "refresh_token" \notin DOMAIN input.credentials

C13_ValidatesIffActiveUnexpired ==
    \A c \in SessionTokens :
        LET out == validate_session(DB, now, c)
        IN  /\ (out.ret # None) <=> SessionValid(c)
            /\ SessionValid(c)
               => /\ out.ret.user_id = user_sessions[c].user_id
                  /\ out.ret.email = Owner(c).email
                  /\ out.ret.access_token = Owner(c).access_token
                  /\ out.db = DB
            /\ ( /\ c \in DOMAIN user_sessions
                 /\ \/ ~user_sessions[c].is_active
                    \/ user_sessions[c].user_id \notin DOMAIN user_credentials
                    \/ ~Owner(c).is_active )
               => /\ out.ret = None
                  /\ out.db = DB

\* C13 witness: validate_session has returned the owner's data for an
\* active, unexpired session after the clock advanced.
C13_Witness ==
    \E c \in DOMAIN user_sessions :
        /\ last.op = "validate_session"
        /\ last.session_token = c
        /\ SessionValid(c)
        /\ now > user_sessions[c].created_at
        /\ last.ret # None
        /\ last.ret.user_id = user_sessions[c].user_id
        /\ last.ret.access_token = Owner(c).access_token

\* C14: save_user_credentials is an upsert keyed by user_id: the call leaves
\* one row under the user_id it returns, holding the email, display name,
\* tokens and expiry of that call whether or not the row existed, and
\* repeating the call with the same identity and tokens at the same time
\* leaves the store unchanged and returns the same user_id.
C14_SaveIsIdempotentUpsert ==
    last.op = "save_user_credentials"
    => LET user_id == last.ret
           again == save_user_credentials(DB, now, last.user_info, last.tokens)
       IN  /\ user_id = UserIdOf(last.user_info)
           /\ user_id \in DOMAIN user_credentials
           /\ user_credentials[user_id].email = EmailOf(last.user_info)
           /\ user_credentials[user_id].display_name = last.user_info.displayName
           /\ user_credentials[user_id].access_token = last.tokens.access_token
           /\ user_credentials[user_id].refresh_token = last.tokens.refresh_token
           /\ user_credentials[user_id].token_expires_at
                  = now + last.tokens.expires_in
           /\ again.db = DB
           /\ again.ret = user_id

\* C14 witness: the renamed account was saved over the row its earlier
\* sign-in had stored (a session of that sign-in exists), next to the row
\* of another account.
C14_Witness ==
    /\ last.op = "save_user_credentials"
    /\ last.user_info = ProfileAliceRenamed
    /\ \E c \in DOMAIN user_sessions : user_sessions[c].user_id = "id-alice"
    /\ user_credentials["id-alice"].email = EmailOf(ProfileAliceRenamed)
    /\ Cardinality(DOMAIN user_credentials) = 2

\* the tables of the next state
DBnext == [user_credentials |-> user_credentials',
           user_sessions |-> user_sessions',
           api_keys |-> api_keys']

C16_SessionReferencesCredential ==
    /\ \A c \in DOMAIN user_sessions :
           user_sessions[c].user_id \in DOMAIN user_credentials
    /\ \A user_id \in UserIds :
           user_id \notin DOMAIN user_credentials
           => LET out == create_session(DB, now, user_id)
              IN  /\ out.exc # None
                  /\ out.ret = None
                  /\ out.db = DB

\* C16 witness: create_session for a user without a credential has failed
\* and no session row exists.
C16_Witness ==
    /\ last.op = "create_session"
    /\ last.user_id \notin DOMAIN user_credentials
    /\ last.exc = <<"ForeignKeyViolation">>
    /\ last.ret = None
    /\ user_sessions = <<>>

\* validate_api_key's query matches key k: the row exists, is active, and
\* its credential is active
KeyValid(k) ==
    /\ k \in DOMAIN api_keys
    /\ api_keys[k].is_active
    /\ api_keys[k].user_id \in DOMAIN user_credentials
    /\ user_credentials[api_keys[k].user_id].is_active

\* C17: validate_api_key succeeds for every active key of an active
\* credential whatever the time, and then changes nothing but the key's
\* last_used_at, which becomes the current time; a validation of an unknown
\* or revoked key returns absent and changes nothing.
C17_ValidationTouchesLastUsedOnly ==
    \A k \in ApiKeys :
        LET out == validate_api_key(DB, now, k)
        IN  IF KeyValid(k)
            THEN /\ out.ret # None
                 /\ out.ret.user_id = api_keys[k].user_id
                 /\ out.db = [DB EXCEPT !.api_keys[k].last_used_at = <<"at", now>>]
            ELSE /\ out.ret = None
                 /\ out.db = DB

\* C17 witness: a key was validated more than 24 hours into the run, after
\* the stored access token expired, and its last_used_at is the time of
\* that call.
C17_Witness ==
    \E k \in DOMAIN api_keys :
        /\ last.op = "validate_api_key"
        /\ last.api_key = k
        /\ last.ret # None
        /\ api_keys[k].last_used_at = <<"at", now>>
        /\ now > SessionDurationSeconds
        /\ now > user_credentials[api_keys[k].user_id].token_expires_at

\* every row of db is a row of after
RowsKept(db, after) ==
    /\ DOMAIN db.user_credentials \subseteq DOMAIN after.user_credentials
    /\ DOMAIN db.user_sessions \subseteq DOMAIN after.user_sessions
    /\ DOMAIN db.api_keys \subseteq DOMAIN after.api_keys

\* C18: no operation removes a row: every step (save, create_session,
\* validate_session with its expiry detection, invalidate_session, logout,
\* generate_api_key, revoke_api_key) keeps every row of the three tables, as
\* do validate_api_key and update_tokens applied in any state, and a session
\* or key row changes only by is_active becoming false.
C18_RowsNeverRemoved ==
    [][ /\ RowsKept(DB, DBnext)
        /\ \A c \in DOMAIN user_sessions :
               \/ user_sessions'[c] = user_sessions[c]
               \/ user_sessions'[c] = [user_sessions[c] EXCEPT !.is_active = FALSE]
        /\ \A k \in DOMAIN api_keys :
               \/ api_keys'[k] = api_keys[k]
               \/ api_keys'[k] = [api_keys[k] EXCEPT !.is_active = FALSE]
        /\ \A k \in ApiKeys :
               RowsKept(DB, validate_api_key(DB, now, k).db)
        /\ \A user_id \in UserIds, refresh_token \in {None, RefreshToken(0)} :
               RowsKept(DB, update_tokens(DB, now, user_id, AccessToken(0),
                                          refresh_token, RefreshExpiresIn).db)
      ]_vars

\* C18 witness: after a logout, an expiry detection or invalidation, and a
\* key revocation, the deactivated session and key rows are still stored.
C18_Witness ==
    \E c \in DOMAIN user_sessions, k \in DOMAIN api_keys :
        /\ last.op = "logout"
        /\ last.cookies = [session_token |-> c]
        /\ ~user_sessions[c].is_active
        /\ ~api_keys[k].is_active
        /\ user_sessions[c].user_id \in DOMAIN user_credentials

\* the step is invalidate_session(c) or a logout carrying cookie c
InvalidationStep(c) ==
    \/ /\ last'.op = "invalidate_session"
       /\ last'.session_token = c
    \/ /\ last'.op = "logout"
       /\ last'.cookies = [session_token |-> c]

\* C19: invalidate_session(c) and logout leave session c inactive; an
\* inactive session stays inactive, every validate_session on it returns
\* absent whether or not expires_at has elapsed, and a request carrying its
\* cookie obtains no access token.
C19_InvalidatedSessionRefused ==
    [][ \A c \in DOMAIN user_sessions :
          /\ InvalidationStep(c) => ~user_sessions'[c].is_active
          /\ ~user_sessions[c].is_active
             => /\ c \in DOMAIN user_sessions'
                /\ ~user_sessions'[c].is_active
                /\ ValidateSessionStep(c) => last'.ret = None
                /\ ( /\ last'.op = "require_oauth_token"
                     /\ last'.cookies = [session_token |-> c] )
                   => /\ last'.ret = None
                      /\ last'.exc = AuthRequired401
                /\ \A response \in RefreshAnswers :
                       get_access_token_with_refresh(
                           DB, now, [session_token |-> c], response).ret = None
      ]_vars

\* C19 witness: a session that was invalidated before its expires_at has
\* been refused by validate_session while its credential is active.
C19_Witness ==
    \E c \in DOMAIN user_sessions :
        /\ last.op = "validate_session"
        /\ last.session_token = c
        /\ last.ret = None
        /\ ~user_sessions[c].is_active
        /\ user_sessions[c].expires_at > now
        /\ Owner(c).is_active

\* C20: a refresh the token endpoint grants, made for a stored token that is
\* near expiry or expired, leaves the stored token fresh (more than five
\* minutes left) and returns it; a refresh the token endpoint refuses leaves
\* the stored token and its expiry as they were.
C20_GrantedRefreshLeavesTokenFresh ==
    \A c \in SessionTokens :
        ( SessionValid(c) /\ Remaining(c) < RefreshMarginSeconds )
        => \A response \in RefreshAnswers :
               LET out == get_access_token_with_refresh(
                              DB, now, [session_token |-> c], response)
                   after == out.db.user_credentials[user_sessions[c].user_id]
               IN  IF response.status = 200
                   THEN /\ after.token_expires_at - now > RefreshMarginSeconds
                        /\ out.ret = after.access_token
                   ELSE /\ after = Owner(c)
                        /\ out.ret = None

UpstreamFailed ==
    /\ last.answer # None
    /\ \/ "exception" \in DOMAIN last.answer
       \/ last.answer.status_code \notin 200..299

\* the text the resource API (or the failed network call) supplied
UpstreamMessage ==
    IF "exception" \in DOMAIN last.answer
    THEN last.answer.exception ELSE last.answer.text

\* C22: when the resource API answers a proxied delete or update with a
\* non-2xx status, or the network call fails, the HTTP caller gets a 5xx
\* error whose detail ends with the upstream message, never a success.
C22_UpstreamFailureAnswered5xx ==
    ( last.op \in {"delete_email", "update_email"} /\ UpstreamFailed )
    => /\ last.response.status_code \in 500..599
       /\ "detail" \in DOMAIN last.response.body
       /\ last.response.body.detail[Len(last.response.body.detail)] = UpstreamMessage

CarriesCredential ==
    \/ ~Falsy(BearerOf(last'.headers))
    \/ /\ last'.cookies # <<>>
       /\ SessionValid(last'.cookies.session_token)

\* C24: every /emails endpoint accepts the caller's credential as an
\* Authorization: Bearer header or as the cookie of a valid session; a
\* request carrying neither is rejected with 401 before any request is sent
\* to the resource API.
C24_BearerHeaderOrSessionCookie ==
    [][ last'.op \in {"list_emails", "delete_email", "update_email"}
        => IF CarriesCredential
           THEN last'.response.status_code \notin {401, 422}
           ELSE /\ last'.response.status_code = 401
                /\ last'.requests = <<>> ]_vars

\* C25: neither layer retries.  Every request to /emails sends at most one
\* request to the resource API, whether the upstream answer is a success, an
\* error status or a network failure, and a refresh sends at most one request
\* to the token endpoint, whether the endpoint grants or refuses it.
C25_AtMostOneOutboundRequest ==
    /\ last.op \in {"list_emails", "delete_email", "update_email"}
       => /\ Len(last.requests) <= 1
          /\ last.calls <= 1
    /\ \A response \in RefreshAnswers :
           /\ oauth_refresh_credentials(
                  now, [refresh_token |-> RefreshToken(1)], response).calls <= 1
           /\ refresh_access_token(now, RefreshToken(1), response).calls <= 1
           /\ \A cookies \in CookieJars :
                  get_access_token_with_refresh(DB, now, cookies, response).calls <= 1

\* An update whose single upstream request failed has been served.
C25_Witness ==
    /\ last.op = "update_email"
    /\ UpstreamFailed
    /\ Len(last.requests) = 1
    /\ last.requests[1].method = "PATCH"

\* The body of a response carries the text of exception e: its detail is a
\* formatted message that ends with str(e).
LeaksText(response, e) ==
    /\ "detail" \in DOMAIN response.body
    /\ Len(response.body.detail) = 2
    /\ response.body.detail[2] = str(e)

\* C26: an exception raised while a request is served is answered with a
\* generic 500 whose body does not carry the exception's text, both when it
\* is raised inside the /oauth/get_credentials handler and when it reaches
\* the top-level handler.
C26_ExceptionAnsweredGeneric500 ==
    ( /\ last.op \in {"get_credentials", "list_emails_store_unreachable"}
      /\ last.raised # None
      /\ last.raised # <<"HTTP400">> )
    => /\ last.response.status_code = 500
       /\ ~LeaksText(last.response, last.raised)

C29_DeactivationTouchesOneRow ==
    [][ /\ last'.op = "invalidate_session"
           => /\ user_credentials' = user_credentials
              /\ api_keys' = api_keys
              /\ DOMAIN user_sessions' = DOMAIN user_sessions
              /\ \A c \in DOMAIN user_sessions :
                     user_sessions'[c] =
                         IF c = last'.session_token
                         THEN [user_sessions[c] EXCEPT !.is_active = FALSE]
                         ELSE user_sessions[c]
        /\ last'.op = "revoke_api_key"
           => /\ user_credentials' = user_credentials
              /\ user_sessions' = user_sessions
              /\ DOMAIN api_keys' = DOMAIN api_keys
              /\ \A k \in DOMAIN api_keys :
                     api_keys'[k] =
                         IF k = last'.api_key
                         THEN [api_keys[k] EXCEPT !.is_active = FALSE]
                         ELSE api_keys[k]
        /\ last'.op = "save_exchanged_tokens"
           => /\ api_keys' = api_keys
              /\ \A c \in DOMAIN user_sessions :
                     /\ user_sessions'[c] = user_sessions[c]
                     /\ validate_session(DB, now, c).ret # None
                        => validate_session(DBnext, now', c).ret # None
      ]_vars

\* An account with two sessions and two keys has logged out of one session
\* after revoking one key: the other session still validates and the other
\* key is still active.
C29_Witness ==
    /\ last.op = "invalidate_session"
    /\ last.session_token \in DOMAIN user_sessions
    /\ ~user_sessions[last.session_token].is_active
    /\ \E c \in DOMAIN user_sessions \ {last.session_token} :
           /\ user_sessions[c].user_id = user_sessions[last.session_token].user_id
           /\ SessionValid(c)
    /\ \E k, j \in DOMAIN api_keys :
           /\ api_keys[k].user_id = api_keys[j].user_id
           /\ ~api_keys[k].is_active
           /\ api_keys[j].is_active

\* C30: the user info validate_session returns has exactly the fields
\* user_id, email, display_name, access_token and token_expires_at and no
\* refresh token, while validate_api_key also returns the stored refresh
\* token; so the refresh_token that get_access_token_with_refresh reads from
\* a user resolved by a session is absent.
C30_SessionUserInfoHasNoRefreshToken ==
    /\ \A c \in SessionTokens :
           \A ret \in {validate_session(DB, now, c).ret} :
               ret # None
               => /\ DOMAIN ret = {"user_id", "email", "display_name",
                                   "access_token", "token_expires_at"}
                  /\ Get(UserData(c), "refresh_token", None) = None
    /\ \A k \in ApiKeys :
           \A ret \in {validate_api_key(DB, now, k).ret} :
               ret # None
               => /\ "refresh_token" \in DOMAIN ret
                  /\ ret.refresh_token
                         = user_credentials[api_keys[k].user_id].refresh_token
    /\ ( last.op = "validate_session" /\ last.ret # None )
       => "refresh_token" \notin DOMAIN last.ret

\* A session of a user with a stored refresh token has validated, and a key
\* of the same user validates too.
C30_Witness ==
    /\ last.op = "validate_session"
    /\ last.ret # None
    /\ user_credentials[last.ret.user_id].refresh_token # None
    /\ \E k \in DOMAIN api_keys :
           /\ api_keys[k].user_id = last.ret.user_id
           /\ validate_api_key(DB, now, k).ret # None

====
